---- MODULE Spec2Model ----
(***************************************************************************)
(* PnP Launchpad (assets/app.js): the status classifier of a project, the  *)
(* "just launched" overlay and the countdown chip, as the cards of a page  *)
(* compute them from the project record and the wall clock, next to the    *)
(* page's other state: the watchlist slot of localStorage and the image    *)
(* tone cache.                                                             *)
(*                                                                         *)
(* Time is local time in milliseconds, counted from 00:00:00.000 of        *)
(* 2025-03-01 (EpochDay); the local zone keeps one offset over the window, *)
(* so every local day has msPerDay milliseconds.                           *)
(* An instant is a Date record [valid, time]; an Invalid Date (time value  *)
(* NaN) has valid = FALSE.                                                 *)
(***************************************************************************)
EXTENDS Integers, Sequences, FiniteSets, TLC

VARIABLES
    p,            \* the project record a card is built from
    clock,        \* the wall clock: what new Date() returns
    now,          \* const now = new Date() of the card last built
    rendered,     \* TRUE once the card of p has been built at this clock value
    status,       \* const status = projectStatus(p, now) of the card
    justLaunched, \* projectIsJustLaunched(p, now), as statusBadge evaluates it
    chipStatus,   \* the status argument handed to countdownChip
    chip,         \* the string countdownChip returned
    again,        \* the status a further call projectStatus(p, now) returned, "" before it
    slot,         \* localStorage's value under WATCHLIST_STORAGE_KEY
    toneCache,    \* IMAGE_TONE_CACHE
    everJust,     \* history: some earlier card of p carried the badge
    lostJust,     \* history: a card without the badge followed one with it
    items,        \* the list a page is about to sort
    sorted,       \* the list after list.sort(comparator)
    sortedBy,     \* the comparator of that sort, "" before it
    data,         \* the content snapshot handed to enrichProjects
    enriched,     \* the project enrichProjects(data) returned, Null before the call
    storage,      \* how this browser's localStorage behaves
    calls,        \* the watchlist calls made so far, the latest last
    tabs,         \* the open tabs: their watch buttons and their handlers' positions
    lastWrite     \* history: the tab that wrote the slot last, Null before any write

\* the variables of the listings
sortVars == <<items, sorted, sortedBy>>

\* the variables of the enrichment
dataVars == <<data, enriched>>

\* the variables of the tabs
tabVars == <<tabs, lastWrite>>

\* the variables of the watchlist, the slot apart
watchVars == <<storage, calls, tabVars>>

\* what the cards of a page leave alone
others == <<sortVars, dataVars, watchVars>>

vars == <<p, clock, now, rendered, status, justLaunched, chipStatus, chip, again,
          slot, toneCache, everJust, lostJust, others>>

-----------------------------------------------------------------------------
(* Bounds of the model.                                                    *)

\* the clock runs over NumDays local days, from 2025-03-09 on
NumDays == 10
\* at most this many of the six late-pledge / pre-order indicators are truthy
MaxIndicators == 2
\* a listing holds at most this many records
MaxItems == 3
\* a project's designers list holds at most this many names
MaxNames == 2

\* the watchlist calls the history keeps
MaxCalls == 2
\* the tabs open on the site
NumTabs == 2

-----------------------------------------------------------------------------
(* JavaScript values: undefined, booleans and strings (a string is the     *)
(* sequence of its characters).                                            *)

Undefined == [type |-> "undefined"]
Bool(b) == [type |-> "boolean", val |-> b]
Str(s) == [type |-> "string", chars |-> s]

typeof(v) == v.type

\* ToBoolean: undefined and the empty string are falsy
Truthy(v) ==
    CASE v.type = "undefined" -> FALSE
      [] v.type = "boolean" -> v.val
      [] v.type = "string" -> Len(v.chars) > 0

Digits == {"0", "1", "2", "3", "4", "5", "6", "7", "8", "9"}

DigitVal(c) ==
    CASE c = "0" -> 0 [] c = "1" -> 1 [] c = "2" -> 2 [] c = "3" -> 3
      [] c = "4" -> 4 [] c = "5" -> 5 [] c = "6" -> 6 [] c = "7" -> 7
      [] c = "8" -> 8 [] c = "9" -> 9

\* Number() of a run of digits: chars[from..to] read as a decimal numeral
RECURSIVE NumberOf(_, _, _)
NumberOf(s, from, to) ==
    IF to < from THEN 0
    ELSE 10 * NumberOf(s, from, to - 1) + DigitVal(s[to])

-----------------------------------------------------------------------------
(* Dates: the Date constructor and the local-time accessors.               *)

msPerDay == 24 * 60 * 60 * 1000

InvalidDate == [valid |-> FALSE, time |-> 0]
DateOf(t) == [valid |-> TRUE, time |-> t]

\* day number (days since 1970-01-01) of the civil date y-m-d, m in 1..12
DaysFromCivil(y, m, d) ==
    LET yy == IF m <= 2 THEN y - 1 ELSE y
        era == yy \div 400
        yoe == yy - era * 400
        mp == IF m > 2 THEN m - 3 ELSE m + 9
        doy == (153 * mp + 2) \div 5 + d - 1
        doe == yoe * 365 + yoe \div 4 - yoe \div 100 + doy
    IN era * 146097 + doe - 719468

\* the civil date <<year, month (0-based), day of month>> of a day number
CivilFromDays(z) ==
    LET zz == z + 719468
        era == zz \div 146097
        doe == zz - era * 146097
        yoe == (doe - doe \div 1460 + doe \div 36524 - doe \div 146096) \div 365
        doy == doe - (365 * yoe + yoe \div 4 - yoe \div 100)
        mp == (5 * doy + 2) \div 153
        d == doy - (153 * mp + 2) \div 5 + 1
        m == IF mp < 10 THEN mp + 3 ELSE mp - 9
        y == yoe + era * 400 + (IF m <= 2 THEN 1 ELSE 0)
    IN <<y, m - 1, d>>

\* MakeDay: month is 0-based and, like the day of month, may overflow
MakeDay(year, month, date) ==
    DaysFromCivil(year + month \div 12, (month % 12) + 1, 1) + date - 1

MakeTime(h, m, s, ms) == ((h * 60 + m) * 60 + s) * 1000 + ms

\* the day the model counts local time from: 2025-03-01
EpochDay == MakeDay(2025, 2, 1)

\* new Date(y, mo, d, h, m, s, ms): local time; years 0..99 mean 1900..1999
NewDateLocal(y, mo, d, h, m, s, ms) ==
    LET full == IF y >= 0 /\ y <= 99 THEN 1900 + y ELSE y
    IN DateOf((MakeDay(full, mo, d) - EpochDay) * msPerDay + MakeTime(h, m, s, ms))

\* ^\d{4}-\d{2}-\d{2}$ on the characters of a string
MatchesIsoDay(s) ==
    /\ Len(s) = 10
    /\ \A i \in {1, 2, 3, 4, 6, 7, 9, 10} : s[i] \in Digits
    /\ s[5] = "-"
    /\ s[8] = "-"

\* the date-time form YYYY-MM-DDTHH:mm, which Date.parse reads as local time
MatchesDateTime(s) ==
    /\ Len(s) = 16
    /\ \A i \in {1, 2, 3, 4, 6, 7, 9, 10, 12, 13, 15, 16} : s[i] \in Digits
    /\ s[5] = "-"
    /\ s[8] = "-"
    /\ s[11] = "T"
    /\ s[14] = ":"

\* mutant: undefined and an unrecognised string give a valid Date long past, as
\* new Date(null) does, here the first instant of the model's time line
NewDateValue_Past(v) ==
    IF typeof(v) = "string" /\ MatchesDateTime(v.chars)
    THEN NewDateLocal(NumberOf(v.chars, 1, 4), NumberOf(v.chars, 6, 7) - 1,
                      NumberOf(v.chars, 9, 10), NumberOf(v.chars, 12, 13),
                      NumberOf(v.chars, 15, 16), 0, 0)
    ELSE DateOf(0)

\* new Date(value) for a value that is not a Date: undefined and a string that
\* Date.parse does not recognise give an Invalid Date
NewDateValue(v) ==
    IF typeof(v) = "string" /\ MatchesDateTime(v.chars)
    THEN NewDateLocal(NumberOf(v.chars, 1, 4), NumberOf(v.chars, 6, 7) - 1,
                      NumberOf(v.chars, 9, 10), NumberOf(v.chars, 12, 13),
                      NumberOf(v.chars, 15, 16), 0, 0)
    ELSE InvalidDate

\* d.setHours(h, m, s, ms) on a copy of d: same local day, the given time of day
SetHours(d, h, m, s, ms) ==
    IF ~d.valid THEN InvalidDate
    ELSE DateOf((d.time \div msPerDay) * msPerDay + MakeTime(h, m, s, ms))

getTime(d) == d.time

\* local calendar fields; NaN (modelled as -1) for an Invalid Date
getFullYear(d) == IF d.valid THEN CivilFromDays(EpochDay + d.time \div msPerDay)[1] ELSE -1
getMonth(d) == IF d.valid THEN CivilFromDays(EpochDay + d.time \div msPerDay)[2] ELSE -1
getDate(d) == IF d.valid THEN CivilFromDays(EpochDay + d.time \div msPerDay)[3] ELSE -1

\* mutants: >= for >, <= for <
DateGt_OrEqual(a, b) == a.valid /\ b.valid /\ a.time >= b.time
DateLt_OrEqual(a, b) == a.valid /\ b.valid /\ a.time <= b.time

\* mutant: > for <
DateLt_Reversed(a, b) == a.valid /\ b.valid /\ a.time > b.time

\* a > b and a < b on Dates: false as soon as one of them is NaN
DateGt(a, b) == a.valid /\ b.valid /\ a.time > b.time
DateLt(a, b) == a.valid /\ b.valid /\ a.time < b.time

\* Math.ceil(n / d) for d > 0
CeilDiv(n, d) == -((-n) \div d)

-----------------------------------------------------------------------------
(* The date helpers of app.js.                                             *)

parseDate(value) ==
    IF typeof(value) = "string" /\ MatchesIsoDay(value.chars)
    THEN NewDateLocal(NumberOf(value.chars, 1, 4), NumberOf(value.chars, 6, 7) - 1,
                      NumberOf(value.chars, 9, 10), 12, 0, 0, 0)
    ELSE NewDateValue(value)

\* mutant: the pattern without its end anchor, /^\d{4}-\d{2}-\d{2}/
hasIsoDate_Unanchored(value) ==
    /\ typeof(value) = "string"
    /\ Len(value.chars) >= 10
    /\ MatchesIsoDay(SubSeq(value.chars, 1, 10))

hasIsoDate(value) == typeof(value) = "string" /\ MatchesIsoDay(value.chars)

dayDiff(from, to) == CeilDiv(getTime(to) - getTime(from), msPerDay)

atDayStart(value) == SetHours(value, 0, 0, 0, 0)

\* mutant: the end date left at the time of day parseDate gave it
atDayEnd_AsParsed(value) == value

atDayEnd(value) == SetHours(value, 23, 59, 59, 999)

\* mutant: the day of the month is not compared
isSameLocalDay_NoDate(a, b) ==
    /\ a.valid /\ b.valid
    /\ getFullYear(a) = getFullYear(b)
    /\ getMonth(a) = getMonth(b)

isSameLocalDay(a, b) ==
    /\ a.valid /\ b.valid
    /\ getFullYear(a) = getFullYear(b)
    /\ getMonth(a) = getMonth(b)
    /\ getDate(a) = getDate(b)

-----------------------------------------------------------------------------
(* Status classification.                                                  *)

Statuses == {"preview", "upcoming", "live", "promo", "late-pledge", "pre-order", "archived"}

\* mutant: a closed project without continuation offer gets the badge's label
projectStatus_EndedLabel(q, t) ==
    LET isPreview == Truthy(q.isPreview) \/ (~hasIsoDate(q.launchDate) /\ ~hasIsoDate(q.endDate))
        launch == atDayStart(parseDate(q.launchDate))
        end == atDayEnd(parseDate(q.endDate))
        hasLatePledge == Truthy(q.isLatePledge) \/ Truthy(q.hasLatePledge) \/ Truthy(q.latePledgeUrl)
        hasPreOrder == Truthy(q.isPreOrder) \/ Truthy(q.hasPreOrder) \/ Truthy(q.preOrderUrl)
    IN IF isPreview THEN "preview"
       ELSE IF DateGt(launch, t) THEN "upcoming"
       ELSE IF DateLt(end, t)
            THEN (IF hasLatePledge THEN "late-pledge"
                  ELSE IF hasPreOrder THEN "pre-order"
                  ELSE "ended")
       ELSE IF Truthy(q.isPromo) THEN "promo"
       ELSE "live"

\* mutant: the pre-order offer is looked at before the late pledge
projectStatus_PreOrderFirst(q, t) ==
    LET isPreview == Truthy(q.isPreview) \/ (~hasIsoDate(q.launchDate) /\ ~hasIsoDate(q.endDate))
        launch == atDayStart(parseDate(q.launchDate))
        end == atDayEnd(parseDate(q.endDate))
        hasLatePledge == Truthy(q.isLatePledge) \/ Truthy(q.hasLatePledge) \/ Truthy(q.latePledgeUrl)
        hasPreOrder == Truthy(q.isPreOrder) \/ Truthy(q.hasPreOrder) \/ Truthy(q.preOrderUrl)
    IN IF isPreview THEN "preview"
       ELSE IF DateGt(launch, t) THEN "upcoming"
       ELSE IF DateLt(end, t)
            THEN (IF hasPreOrder THEN "pre-order"
                  ELSE IF hasLatePledge THEN "late-pledge"
                  ELSE "archived")
       ELSE IF Truthy(q.isPromo) THEN "promo"
       ELSE "live"

\* mutant: the now parameter is ignored and the wall clock read instead
projectStatus_AmbientClock(q, t) ==
    LET isPreview == Truthy(q.isPreview) \/ (~hasIsoDate(q.launchDate) /\ ~hasIsoDate(q.endDate))
        launch == atDayStart(parseDate(q.launchDate))
        end == atDayEnd(parseDate(q.endDate))
        hasLatePledge == Truthy(q.isLatePledge) \/ Truthy(q.hasLatePledge) \/ Truthy(q.latePledgeUrl)
        hasPreOrder == Truthy(q.isPreOrder) \/ Truthy(q.hasPreOrder) \/ Truthy(q.preOrderUrl)
    IN IF isPreview THEN "preview"
       ELSE IF DateGt(launch, clock) THEN "upcoming"
       ELSE IF DateLt(end, clock)
            THEN (IF hasLatePledge THEN "late-pledge"
                  ELSE IF hasPreOrder THEN "pre-order"
                  ELSE "archived")
       ELSE IF Truthy(q.isPromo) THEN "promo"
       ELSE "live"

projectStatus(q, t) ==
    LET isPreview == Truthy(q.isPreview) \/ (~hasIsoDate(q.launchDate) /\ ~hasIsoDate(q.endDate))
        launch == atDayStart(parseDate(q.launchDate))
        end == atDayEnd(parseDate(q.endDate))
        hasLatePledge == Truthy(q.isLatePledge) \/ Truthy(q.hasLatePledge) \/ Truthy(q.latePledgeUrl)
        hasPreOrder == Truthy(q.isPreOrder) \/ Truthy(q.hasPreOrder) \/ Truthy(q.preOrderUrl)
    IN IF isPreview THEN "preview"
       ELSE IF DateGt(launch, t) THEN "upcoming"
       ELSE IF DateLt(end, t)
            THEN (IF hasLatePledge THEN "late-pledge"
                  ELSE IF hasPreOrder THEN "pre-order"
                  ELSE "archived")
       ELSE IF Truthy(q.isPromo) THEN "promo"
       ELSE "live"

\* mutant: a promo listing never counts as just launched
projectIsJustLaunched_LiveOnly(q, t) ==
    LET st == projectStatus(q, t)
    IN IF st # "live" THEN FALSE
       ELSE IF ~hasIsoDate(q.launchDate) THEN FALSE
       ELSE isSameLocalDay(atDayStart(parseDate(q.launchDate)), t)

projectIsJustLaunched(q, t) ==
    LET st == projectStatus(q, t)
    IN IF st \notin {"live", "promo"} THEN FALSE
       ELSE IF ~hasIsoDate(q.launchDate) THEN FALSE
       ELSE isSameLocalDay(atDayStart(parseDate(q.launchDate)), t)

\* mutant: zero days to the end already reads Ended
countdownChip_ZeroEnded(st, q, t) ==
    IF st = "preview" THEN "<span class=\"countdown-chip preview\">Dates TBA</span>"
    ELSE IF st = "upcoming" /\ hasIsoDate(q.launchDate)
         THEN LET days == dayDiff(t, parseDate(q.launchDate))
              IN IF days <= 0
                 THEN "<span class=\"countdown-chip upcoming\">Launching soon</span>"
                 ELSE "<span class=\"countdown-chip upcoming\">Launches in "
                          \o ToString(days) \o "d</span>"
    ELSE IF st \in {"live", "promo", "late-pledge", "pre-order"} /\ hasIsoDate(q.endDate)
         THEN LET days == dayDiff(t, parseDate(q.endDate))
              IN IF days <= 0 THEN "<span class=\"countdown-chip ended\">Ended</span>"
                 ELSE "<span class=\"countdown-chip live\">Ends in "
                          \o ToString(days) \o "d</span>"
    ELSE ""

countdownChip(st, q, t) ==
    IF st = "preview" THEN "<span class=\"countdown-chip preview\">Dates TBA</span>"
    ELSE IF st = "upcoming" /\ hasIsoDate(q.launchDate)
         THEN LET days == dayDiff(t, parseDate(q.launchDate))
              IN IF days <= 0
                 THEN "<span class=\"countdown-chip upcoming\">Launching soon</span>"
                 ELSE "<span class=\"countdown-chip upcoming\">Launches in "
                          \o ToString(days) \o "d</span>"
    ELSE IF st \in {"live", "promo", "late-pledge", "pre-order"} /\ hasIsoDate(q.endDate)
         THEN LET days == dayDiff(t, parseDate(q.endDate))
              IN IF days < 0 THEN "<span class=\"countdown-chip ended\">Ended</span>"
                 ELSE IF days = 0 THEN "<span class=\"countdown-chip live\">Ends today</span>"
                 ELSE "<span class=\"countdown-chip live\">Ends in "
                          \o ToString(days) \o "d</span>"
    ELSE ""

-----------------------------------------------------------------------------
(* The sort comparators, and Array.prototype.sort as the listing pages     *)
(* apply it to them.  A comparator returns a JavaScript number, which may  *)
(* be NaN.                                                                 *)

Num(n) == [nan |-> FALSE, val |-> n]
NaN == [nan |-> TRUE, val |-> 0]

\* a.getTime() - b.getTime(): NaN as soon as one of the Dates is invalid
TimeDifference(a, b) ==
    IF a.valid /\ b.valid THEN Num(getTime(a) - getTime(b)) ELSE NaN

byWeekDesc(a, b) == TimeDifference(parseDate(b.weekStart), parseDate(a.weekStart))

\* mutant: the record without ISO end date goes first
byEndAsc_InvalidFirst(a, b) ==
    IF ~hasIsoDate(a.endDate) /\ ~hasIsoDate(b.endDate) THEN Num(0)
    ELSE IF ~hasIsoDate(a.endDate) THEN Num(-1)
    ELSE IF ~hasIsoDate(b.endDate) THEN Num(1)
    ELSE TimeDifference(parseDate(a.endDate), parseDate(b.endDate))

byEndAsc(a, b) ==
    IF ~hasIsoDate(a.endDate) /\ ~hasIsoDate(b.endDate) THEN Num(0)
    ELSE IF ~hasIsoDate(a.endDate) THEN Num(1)
    ELSE IF ~hasIsoDate(b.endDate) THEN Num(-1)
    ELSE TimeDifference(parseDate(a.endDate), parseDate(b.endDate))

byLaunchDesc(a, b) ==
    IF ~hasIsoDate(a.launchDate) /\ ~hasIsoDate(b.launchDate) THEN Num(0)
    ELSE IF ~hasIsoDate(a.launchDate) THEN Num(1)
    ELSE IF ~hasIsoDate(b.launchDate) THEN Num(-1)
    ELSE TimeDifference(parseDate(b.launchDate), parseDate(a.launchDate))

\* mutant: the pre-order offer ranks before the late pledge
rank_PreOrderFirst(q) ==
    LET st == projectStatus(q, clock)
    IN IF st = "pre-order" THEN 0
       ELSE IF st = "late-pledge" THEN 1
       ELSE 2

\* const rank = (p) => ...: the status is taken at new Date(), the wall clock
rank(q) ==
    LET st == projectStatus(q, clock)
    IN IF st = "late-pledge" THEN 0
       ELSE IF st = "pre-order" THEN 1
       ELSE 2

byArchivePriority(a, b) ==
    LET rankDiff == rank(a) - rank(b)
    IN IF rankDiff # 0 THEN Num(rankDiff)
       ELSE TimeDifference(parseDate(b.endDate), parseDate(a.endDate))

\* SortCompare of Array.prototype.sort: a NaN from the comparator counts as +0
SortCompare(v) == IF v.nan THEN 0 ELSE v.val

\* a consistent comparator, as ECMAScript asks of comparefn, over the values
\* of a list: reflexive, antisymmetric, and transitive in =, < and >
ConsistentOn(I, c) ==
    /\ \A i \in I : c[i][i] = 0
    /\ \A i, j \in I : (c[i][j] < 0) <=> (c[j][i] > 0)
    /\ \A i, j \in I : (c[i][j] = 0) <=> (c[j][i] = 0)
    /\ \A i, j, k \in I :
         /\ (c[i][j] = 0 /\ c[j][k] = 0) => c[i][k] = 0
         /\ (c[i][j] < 0 /\ c[j][k] < 0) => c[i][k] < 0
         /\ (c[i][j] > 0 /\ c[j][k] > 0) => c[i][k] > 0

\* c[i][j] is SortCompare of the comparator's result on list[i] and list[j]
Compared(cmp(_, _), list) ==
    [i \in 1..Len(list) |->
        [j \in 1..Len(list) |-> SortCompare(cmp(list[i], list[j]))] \o <<>>] \o <<>>

Consistent(cmp(_, _), list) == ConsistentOn(1..Len(list), Compared(cmp, list))

\* the stable sort: list[i] lands behind the elements that compare smaller
\* and the equal ones that stood before it
StableSortOn(list, c) ==
    LET n == Len(list)
        Before(j, i) == c[j][i] < 0 \/ (c[j][i] = 0 /\ j < i)
        Pos(i) == Cardinality({j \in 1..n : Before(j, i)}) + 1
    IN [k \in 1..n |-> list[CHOOSE i \in 1..n : Pos(i) = k]]

StableSort(cmp(_, _), list) == StableSortOn(list, Compared(cmp, list))

\* list.sort(cmp): the stable sorted order under a consistent comparator; under
\* an inconsistent one the order is implementation-defined, any arrangement of
\* the same elements
SortResults(cmp(_, _), list) ==
    IF Consistent(cmp, list) THEN {StableSort(cmp, list)}
    ELSE {[k \in 1..Len(list) |-> list[perm[k]]] : perm \in Permutations(1..Len(list))}

-----------------------------------------------------------------------------
(* Name and slug enrichment.  A person of a registry is a record [name,    *)
(* slug]; a designers list is [type |-> "array", elems |-> names].         *)

Null == [type |-> "null"]
Array(elems) == [type |-> "array", elems |-> elems]

IsSpace(c) == c \in {" ", "\t", "\n"}

RECURSIVE TrimStart(_)
TrimStart(s) ==
    IF Len(s) > 0 /\ IsSpace(Head(s)) THEN TrimStart(Tail(s)) ELSE s

RECURSIVE TrimEnd(_)
TrimEnd(s) ==
    IF Len(s) > 0 /\ IsSpace(s[Len(s)]) THEN TrimEnd(SubSeq(s, 1, Len(s) - 1)) ELSE s

\* String.prototype.trim on the characters
Trim(s) == TrimEnd(TrimStart(s))

\* String(v || ''): the characters of a string, none for undefined
StringOf(v) == IF typeof(v) = "string" THEN v.chars ELSE <<>>

UpperLetters == <<"A", "B", "C", "D", "E", "F", "G", "H", "I", "J", "K", "L", "M",
                  "N", "O", "P", "Q", "R", "S", "T", "U", "V", "W", "X", "Y", "Z", "É">>
LowerLetters == <<"a", "b", "c", "d", "e", "f", "g", "h", "i", "j", "k", "l", "m",
                  "n", "o", "p", "q", "r", "s", "t", "u", "v", "w", "x", "y", "z", "é">>

toLowerCase(s) ==
    [i \in 1..Len(s) |->
        IF \E k \in 1..Len(UpperLetters) : UpperLetters[k] = s[i]
        THEN LowerLetters[CHOOSE k \in 1..Len(UpperLetters) : UpperLetters[k] = s[i]]
        ELSE s[i]]

\* normalize('NFKD'): é becomes e followed by the combining acute accent
RECURSIVE normalizeNFKD(_)
normalizeNFKD(s) ==
    IF s = <<>> THEN <<>>
    ELSE (IF Head(s) = "é" THEN <<"e", "U+0301">> ELSE <<Head(s)>>) \o normalizeNFKD(Tail(s))

\* replace(/[^a-z0-9]+/g, '-') on s; inRun: the last character was replaced
RECURSIVE Hyphenate(_, _)
Hyphenate(s, inRun) ==
    IF s = <<>> THEN <<>>
    ELSE IF \E k \in 1..26 : LowerLetters[k] = Head(s) THEN <<Head(s)>> \o Hyphenate(Tail(s), FALSE)
    ELSE IF Head(s) \in Digits THEN <<Head(s)>> \o Hyphenate(Tail(s), FALSE)
    ELSE IF inRun THEN Hyphenate(Tail(s), TRUE)
    ELSE <<"-">> \o Hyphenate(Tail(s), TRUE)

\* replace(/^-+|-+$/g, '')
RECURSIVE StripHyphens(_)
StripHyphens(s) ==
    IF Len(s) > 0 /\ Head(s) = "-" THEN StripHyphens(Tail(s))
    ELSE IF Len(s) > 0 /\ s[Len(s)] = "-" THEN StripHyphens(SubSeq(s, 1, Len(s) - 1))
    ELSE s

slugify(value) ==
    StripHyphens(Hyphenate(SelectSeq(normalizeNFKD(toLowerCase(value)),
                                     LAMBDA c : c # "U+0301"), FALSE))

\* value.split(','): the pieces between the commas
RECURSIVE Split(_, _)
Split(s, piece) ==
    IF s = <<>> THEN <<piece>>
    ELSE IF Head(s) = "," THEN <<piece>> \o Split(Tail(s), <<>>)
    ELSE Split(Tail(s), Append(piece, Head(s)))

\* names.join(', ')
RECURSIVE Join(_)
Join(names) ==
    IF names = <<>> THEN <<>>
    ELSE IF Len(names) = 1 THEN names[1]
    ELSE names[1] \o <<",", " ">> \o Join(Tail(names))

\* new Map(people.map((d) => [String(d.name || '').toLowerCase(), d])).get(key):
\* the last person of that key, undefined when there is none
MapGet(people, key) ==
    LET hits == {i \in 1..Len(people) : toLowerCase(StringOf(people[i].name)) = key}
    IN IF hits = {} THEN Undefined
       ELSE people[CHOOSE i \in hits : \A k \in hits : k <= i]

\* mutant: the derived slug is taken although the registry has the person
SlugOr_Derived(match, name) == slugify(name)

\* match?.slug || slugify(name)
SlugOr(match, name) ==
    IF match # Undefined /\ Truthy(match.slug) THEN match.slug.chars ELSE slugify(name)

\* mutant: the names keep their surrounding whitespace
designerNames_Untrimmed(project) ==
    LET raw == IF typeof(project.designers) = "array"
               THEN [i \in 1..Len(project.designers.elems) |-> StringOf(project.designers.elems[i])]
               ELSE Split(StringOf(project.designer), <<>>)
    IN SelectSeq(raw, LAMBDA n : n # <<>>)

\* const designerNames = ...: trimmed, the empty ones dropped
designerNames(project) ==
    LET raw == IF typeof(project.designers) = "array"
               THEN [i \in 1..Len(project.designers.elems) |-> StringOf(project.designers.elems[i])]
               ELSE Split(StringOf(project.designer), <<>>)
    IN SelectSeq([i \in 1..Len(raw) |-> Trim(raw[i])], LAMBDA n : n # <<>>)

\* enrichProjects(data) on the project of the snapshot: the record it maps the
\* project to, strings as their characters
enrichProjects(d) ==
    LET project == d.project
        names == designerNames(project)
        designerItems ==
            [i \in 1..Len(names) |->
                [name |-> names[i],
                 slug |-> SlugOr(MapGet(d.designers, toLowerCase(names[i])), names[i])]]
        dd == IF Truthy(project.designer)
              THEN MapGet(d.designers, toLowerCase(project.designer.chars)) ELSE Undefined
        pp == IF Truthy(project.publisher)
              THEN MapGet(d.publishers, toLowerCase(project.publisher.chars)) ELSE Undefined
    IN [designers |-> project.designers,
        publisher |-> project.publisher,
        designer |-> IF Truthy(project.designer) THEN project.designer.chars ELSE Join(names),
        designerItems |-> designerItems,
        designerSlugs |-> [i \in 1..Len(names) |-> designerItems[i].slug],
        designerSlug |->
            IF Len(names) > 0 /\ designerItems[1].slug # <<>> THEN designerItems[1].slug
            ELSE IF dd # Undefined /\ Truthy(dd.slug) THEN dd.slug.chars
            ELSE IF Truthy(project.designer) THEN slugify(project.designer.chars)
            ELSE <<>>,
        publisherSlug |->
            IF pp # Undefined /\ Truthy(pp.slug) THEN pp.slug.chars
            ELSE IF Truthy(project.publisher) THEN slugify(project.publisher.chars)
            ELSE <<>>]

-----------------------------------------------------------------------------
(* The inputs: project records and clock values.                           *)

\* launchDate / endDate as content.json may carry them
Iso_03_10 == Str(<<"2", "0", "2", "5", "-", "0", "3", "-", "1", "0">>)
Iso_03_17 == Str(<<"2", "0", "2", "5", "-", "0", "3", "-", "1", "7">>)
DateTime_03_12 ==
    Str(<<"2", "0", "2", "5", "-", "0", "3", "-", "1", "2", "T", "1", "8", ":", "0", "0">>)
Tba == Str(<<"T", "B", "A">>)

IsoValues == {Iso_03_10, Iso_03_17}
DateValues == IsoValues \cup {Undefined, Tba, DateTime_03_12}

Flag == {Undefined, Bool(TRUE)}
Url == {Undefined, Str(<<"h", "t", "t", "p", "s", ":", "/", "/", "x">>)}

IndicatorFields ==
    {"isLatePledge", "hasLatePledge", "latePledgeUrl", "isPreOrder", "hasPreOrder", "preOrderUrl"}

Indicators(q) == {f \in IndicatorFields : Truthy(q[f])}

Title_A == Str(<<"A">>)
Title_B == Str(<<"B">>)
Titles == {Title_A, Title_B}

Records ==
    [launchDate : DateValues, endDate : DateValues, isPreview : Flag, isPromo : Flag,
     isLatePledge : Flag, hasLatePledge : Flag, latePledgeUrl : Url,
     isPreOrder : Flag, hasPreOrder : Flag, preOrderUrl : Url, title : {Title_A}]

Projects == {q \in Records : Cardinality(Indicators(q)) <= MaxIndicators}

\* times of day the clock is read at: 00:00:00.000, 08:00, 12:00, 23:59:59.999
TimesOfDay ==
    {MakeTime(0, 0, 0, 0), MakeTime(8, 0, 0, 0), MakeTime(12, 0, 0, 0), MakeTime(23, 59, 59, 999)}

\* day offsets from EpochDay: 8 is 2025-03-09
WindowDays == 8 .. (8 + NumDays - 1)

Instants == {DateOf(d * msPerDay + tod) : d \in WindowDays, tod \in TimesOfDay}

Later(t) == {u \in Instants : u.time > t.time}

\* the next clock value after t
NextInstant(t) == CHOOSE u \in Later(t) : \A w \in Later(t) : u.time <= w.time

-----------------------------------------------------------------------------
(* The watchlist slot and the image tone cache.  The slot holds null when  *)
(* the key is absent, else a string.  A completion is what a call ends     *)
(* with: a value, or an exception on its way up.                           *)

Normal(v) == [thrown |-> FALSE, value |-> v]
Throw == [thrown |-> TRUE, value |-> Undefined]

\* the characters of a JSON string literal's body: " and \ escaped
RECURSIVE Quote(_)
Quote(s) ==
    IF s = <<>> THEN <<>>
    ELSE (IF Head(s) \in {"\"", "\\"} THEN <<"\\", Head(s)>> ELSE <<Head(s)>>) \o Quote(Tail(s))

\* JSON.stringify of an array of strings, from its k-th element on
RECURSIVE JSONstringifyFrom(_, _)
JSONstringifyFrom(slugs, k) ==
    IF k > Len(slugs) THEN <<"]">>
    ELSE (IF k > 1 THEN <<",">> ELSE <<>>) \o <<"\"">> \o Quote(slugs[k]) \o <<"\"">>
             \o JSONstringifyFrom(slugs, k + 1)

JSONstringify(slugs) == Str(<<"[">> \o JSONstringifyFrom(slugs, 1))

\* a JSON string literal read from t[i] on, i behind its opening quote: whether
\* it closes, its characters, and the position behind its closing quote
RECURSIVE ScanString(_, _, _)
ScanString(t, i, acc) ==
    IF i > Len(t) THEN [ok |-> FALSE, chars |-> acc, next |-> i]
    ELSE IF t[i] = "\"" THEN [ok |-> TRUE, chars |-> acc, next |-> i + 1]
    ELSE IF t[i] = "\\"
         THEN (IF i < Len(t) /\ t[i + 1] \in {"\"", "\\"}
               THEN ScanString(t, i + 2, Append(acc, t[i + 1]))
               ELSE [ok |-> FALSE, chars |-> acc, next |-> i])
    ELSE ScanString(t, i + 1, Append(acc, t[i]))

\* the elements of a JSON array from t[i] on, strings and null, up to the
\* closing bracket that ends the text
RECURSIVE ParseElements(_, _, _)
ParseElements(t, i, acc) ==
    LET isNull == i + 3 <= Len(t) /\ SubSeq(t, i, i + 3) = <<"n", "u", "l", "l">>
        str == ScanString(t, i + 1, <<>>)
        isString == i <= Len(t) /\ t[i] = "\"" /\ str.ok
        elem == IF isNull THEN Null ELSE Str(str.chars)
        next == IF isNull THEN i + 4 ELSE str.next
    IN IF ~(isNull \/ isString) \/ next > Len(t) THEN Throw
       ELSE IF t[next] = "," THEN ParseElements(t, next + 1, Append(acc, elem))
       ELSE IF t[next] = "]" /\ next = Len(t) THEN Normal(Array(Append(acc, elem)))
       ELSE Throw

\* JSON.parse on the characters of a text without white space: an array of
\* strings and null, a string, null or {}; any other text is a SyntaxError
JSONparse(t) ==
    IF t = <<"[", "]">> THEN Normal(Array(<<>>))
    ELSE IF Len(t) >= 2 /\ t[1] = "[" THEN ParseElements(t, 2, <<>>)
    ELSE IF Len(t) >= 2 /\ t[1] = "\"" /\ ScanString(t, 2, <<>>).ok
                /\ ScanString(t, 2, <<>>).next = Len(t) + 1
         THEN Normal(Str(ScanString(t, 2, <<>>).chars))
    ELSE IF t = <<"n", "u", "l", "l">> THEN Normal(Null)
    ELSE IF t = <<"{", "}">> THEN Normal([type |-> "object"])
    ELSE Throw

\* localStorage: available; over its quota, so that setItem throws; or denied,
\* so that every access throws
StorageModes == {"available", "quota", "denied"}

\* the forEach of readWatchlist over parsed[from..]: trimmed, non-empty, first
\* occurrences only
RECURSIVE Unique(_, _, _)
Unique(parsed, from, unique) ==
    IF from > Len(parsed) THEN unique
    ELSE LET slug == Trim(StringOf(parsed[from]))
         IN IF Len(slug) = 0 \/ \E k \in 1..Len(unique) : unique[k] = slug
            THEN Unique(parsed, from + 1, unique)
            ELSE Unique(parsed, from + 1, Append(unique, slug))

\* the try block of readWatchlist; getItem throws when storage is denied
readWatchlistTry(st, sl) ==
    LET raw == IF st = "denied" THEN Throw ELSE Normal(sl)
    IN IF raw.thrown THEN Throw
       ELSE IF raw.value = Null \/ raw.value.chars = <<>> THEN Normal(<<>>)
       ELSE LET parsed == JSONparse(raw.value.chars)
            IN IF parsed.thrown THEN Throw
               ELSE IF typeof(parsed.value) # "array" THEN Normal(<<>>)
               ELSE Normal(Unique(parsed.value.elems, 1, <<>>))

\* mutant: no catch around the read
readWatchlist_Uncaught(st, sl) == readWatchlistTry(st, sl)

readWatchlist(st, sl) ==
    IF readWatchlistTry(st, sl).thrown THEN Normal(<<>>) ELSE readWatchlistTry(st, sl)

\* mutant: the write keeps the slugs the slot holds beside those it is given
writeWatchlist_Merged(st, sl, slugs) ==
    LET kept == SelectSeq(readWatchlist(st, sl).value,
                          LAMBDA x : \A k \in 1..Len(slugs) : slugs[k] # x)
    IN IF st = "available" THEN Normal(JSONstringify(slugs \o kept)) ELSE Normal(sl)

\* writeWatchlist(slugs), its value the slot's value after it: setItem throws
\* unless storage is available, and the catch leaves the slot as it was
writeWatchlist(st, sl, slugs) ==
    LET setItem == IF st = "available" THEN Normal(JSONstringify(slugs)) ELSE Throw
    IN IF setItem.thrown THEN Normal(sl) ELSE setItem

getWatchlistSlugs(st, sl) == readWatchlist(st, sl)

isWatchlisted(st, sl, slug) ==
    IF slug = <<>> THEN Normal(FALSE)
    ELSE IF readWatchlist(st, sl).thrown THEN Throw
    ELSE Normal(\E k \in 1..Len(readWatchlist(st, sl).value) : readWatchlist(st, sl).value[k] = slug)

clearWatchlist(st, sl) == writeWatchlist(st, sl, <<>>)

\* slugs.indexOf(x): 0 when absent (the model's sequences start at 1)
IndexOf(slugs, x) ==
    IF \E k \in 1..Len(slugs) : slugs[k] = x
    THEN CHOOSE k \in 1..Len(slugs) : slugs[k] = x /\ \A m \in 1..(k - 1) : slugs[m] # x
    ELSE 0

\* slugs.splice(idx, 1)
Splice(slugs, idx) == SubSeq(slugs, 1, idx - 1) \o SubSeq(slugs, idx + 1, Len(slugs))

\* mutant: the slug is added whether or not the list holds it
Toggled_AddOnly(slugs, normalized) == Append(slugs, normalized)

\* the list toggleWatchlist writes: slugs without normalized, or with it added
Toggled(slugs, normalized) ==
    IF IndexOf(slugs, normalized) >= 1 THEN Splice(slugs, IndexOf(slugs, normalized))
    ELSE Append(slugs, normalized)

\* toggleWatchlist(slug): its completion, and the slot's value after it
toggleWatchlist(st, sl, slug) ==
    LET normalized == Trim(slug)
        read == readWatchlist(st, sl)
        written == writeWatchlist(st, sl, Toggled(read.value, normalized))
    IN IF normalized = <<>> THEN [thrown |-> FALSE, value |-> FALSE, slot |-> sl]
       ELSE IF read.thrown \/ written.thrown
            THEN [thrown |-> TRUE, value |-> Undefined, slot |-> sl]
       ELSE [thrown |-> FALSE, value |-> IndexOf(read.value, normalized) < 1,
             slot |-> written.value]

WATCHLIST_STORAGE_KEY == "pnpl_watchlist_v1"

\* the data-watch-slug attributes of the watch buttons of a page, in document
\* order: a card and a tile of one project, and a card of another
ButtonSlugs == <<(<<"f", "o", "o">>), (<<"f", "o", "o">>), (<<"b", "a", "r">>)>>

\* mutant: querySelector, so that the first button selected is the one updated
refreshWatchButtons_First(st, sl, slug, pressed) ==
    LET slugs == readWatchlist(st, sl).value
        selected == {b \in DOMAIN ButtonSlugs : slug = <<>> \/ ButtonSlugs[b] = slug}
    IN [b \in DOMAIN ButtonSlugs |->
            IF b \in selected /\ \A c \in selected : b <= c
            THEN \E k \in 1..Len(slugs) : slugs[k] = ButtonSlugs[b]
            ELSE pressed[b]]

\* refreshWatchButtons(slug): aria-pressed of each button, from what it was
refreshWatchButtons(st, sl, slug, pressed) ==
    LET slugs == readWatchlist(st, sl).value
        selected == {b \in DOMAIN ButtonSlugs : slug = <<>> \/ ButtonSlugs[b] = slug}
    IN [b \in DOMAIN ButtonSlugs |->
            IF b \in selected
            THEN \E k \in 1..Len(slugs) : slugs[k] = ButtonSlugs[b]
            ELSE pressed[b]]

\* the listener of the window's storage event
onStorage(key, st, sl, pressed) ==
    IF key # WATCHLIST_STORAGE_KEY THEN pressed
    ELSE refreshWatchButtons(st, sl, <<>>, pressed)

\* the slugs of the watch buttons a visitor clicks
WatchSlugs == {<<"f", "o", "o">>, <<" ", "f", "o", "o">>}

\* the slugs the watchlist functions are called with: those, another slug, the
\* empty string and a blank one
SlugArguments == WatchSlugs \cup {<<"b", "a", "r">>, <<>>, <<" ">>}

\* what the slot holds when a page loads: nothing, the empty string, a text
\* that is not JSON, JSON that is not an array, or an array as this script or
\* another one of the origin left it
StoredValues ==
    LET foo == <<"f", "o", "o">>
        bar == <<"b", "a", "r">>
    IN {Null, Str(<<>>), Str(<<"[", "f", "o", "o">>), Str(<<"{", "}">>),
        Str(<<"\"", "f", "o", "o", "\"">>)}
           \cup {JSONstringify(list) :
                    list \in {<<>>, <<foo>>, <<foo, foo>>, <<bar, bar>>, <<(<<" ">> \o foo), bar>>}}

\* the image of the card and the tone the canvas sampling gives for it
ImageSrc == "assets/cover.png"
Tones == {"rgb(12, 34, 56)"}

\* the names of designers and publishers: a plain name, the same in capitals,
\* two names in one string, a name with a leading space, one with an accent
\* and punctuation, and a blank one
Name_Ada == <<"A", "d", "a", " ", "L">>
Name_ADA == <<"A", "D", "A", " ", "L">>
Name_Two == <<"L", ",", " ", "A", "d", "a">>
Name_Padded == <<" ", "A", "d", "a", " ", "L">>
Name_Zoe == <<"Z", "o", "é", " ", "&", " ", "C", "o", ".">>
Name_Blank == <<" ">>

\* the people of the registries: one with a slug of its own, one without slug
Person_Ada == [name |-> Str(Name_Ada), slug |-> Str(<<"a", "l">>)]
Person_ADA == [name |-> Str(Name_ADA), slug |-> Undefined]

Registries == {<<>>, <<Person_Ada>>, <<Person_ADA>>, <<Person_Ada, Person_ADA>>,
               <<Person_ADA, Person_Ada>>}

\* the snapshots: the registries and a project with its designers list, legacy
\* designer string and publisher
Snapshots ==
    [designers : Registries,
     publishers : {<<>>, <<Person_Ada>>},
     project : [designers : {Undefined} \cup
                    {Array(l) : l \in UNION {[1..n -> {Str(Name_Ada), Str(Name_Two), Str(Name_Blank)}]
                                                : n \in 0..MaxNames}},
                designer : {Undefined, Str(Name_Ada), Str(Name_ADA), Str(Name_Two),
                            Str(Name_Padded), Str(Name_Blank)},
                publisher : {Undefined, Str(Name_Ada), Str(Name_Padded), Str(Name_Zoe)}]]

\* no snapshot loaded
DataIdle ==
    /\ data = Null
    /\ enriched = Null

\* a working localStorage, no watchlist call made and no tab opened
WatchIdle ==
    /\ storage = "available"
    /\ calls = <<>>
    /\ tabs = <<>>
    /\ lastWrite = Null

-----------------------------------------------------------------------------
(* The page: a card of p is built at the clock's value; the clock advances *)
(* between page views.                                                     *)

Init ==
    /\ p \in Projects
    /\ clock \in Instants
    /\ now = clock
    /\ rendered = FALSE
    /\ status = ""
    /\ justLaunched = FALSE
    /\ chipStatus = ""
    /\ chip = ""
    /\ again = ""
    /\ slot = Null
    /\ toneCache = <<>>
    /\ everJust = FALSE
    /\ lostJust = FALSE
    /\ items = <<>>
    /\ sorted = <<>>
    /\ sortedBy = ""
    /\ DataIdle
    /\ WatchIdle

\* projectCard / projectTile: const now = new Date(); const status = projectStatus(p, now);
\* statusBadge(status, p, now); countdownChip(status, p, now)
ProjectCard ==
    /\ ~rendered
    /\ rendered' = TRUE
    /\ now' = clock
    /\ status' = projectStatus(p, now')
    /\ justLaunched' = projectIsJustLaunched(p, now')
    /\ chipStatus' = status'
    /\ chip' = countdownChip(status', p, now')
    /\ everJust' = (everJust \/ justLaunched')
    /\ lostJust' = (lostJust \/ (everJust /\ ~justLaunched'))
    /\ UNCHANGED <<p, clock, again, slot, toneCache, others>>

\* time passes and the page is loaded again
ClockTick ==
    /\ rendered
    /\ Later(clock) # {}
    /\ clock' = NextInstant(clock)
    /\ rendered' = FALSE
    /\ UNCHANGED <<p, now, status, justLaunched, chipStatus, chip, again, slot, toneCache,
                   everJust, lostJust, others>>

Next == ProjectCard \/ ClockTick

Spec == Init /\ [][Next]_vars

-----------------------------------------------------------------------------
(* countdownChip on its own: any status argument, any dates, any clock.    *)

ChipProjects == {q \in Projects : ~Truthy(q.isPreview) /\ ~Truthy(q.isPromo) /\ Indicators(q) = {}}

StatusArguments == Statuses \cup {""}

InitChip ==
    /\ Init
    /\ p \in ChipProjects

CountdownChip(st) ==
    /\ ~rendered
    /\ rendered' = TRUE
    /\ now' = clock
    /\ chipStatus' = st
    /\ chip' = countdownChip(st, p, now')
    /\ UNCHANGED <<p, clock, status, justLaunched, again, slot, toneCache, everJust, lostJust, others>>

NextChip == \E st \in StatusArguments : CountdownChip(st)

SpecChip == InitChip /\ [][NextChip]_vars

-----------------------------------------------------------------------------
(* The classifier among the page's other operations: between two calls of  *)
(* projectStatus with the same project dates, flags and now, the visitor   *)
(* toggles watch buttons, images are sampled, time passes, and the record  *)
(* comes back from content.json with another title.                        *)

PureProjects ==
    {q \in Projects : /\ q.launchDate \in IsoValues \cup {Undefined}
                      /\ q.endDate \in IsoValues \cup {Undefined}
                      /\ Indicators(q) \subseteq {"isLatePledge"}}

InitPure ==
    /\ Init
    /\ p \in PureProjects

\* the click handler of a watch button: toggleWatchlist(slug)
ToggleWatchlist(slug) ==
    /\ slot' = toggleWatchlist(storage, slot, slug).slot
    /\ UNCHANGED <<p, clock, now, rendered, status, justLaunched, chipStatus, chip, again,
                   toneCache, everJust, lostJust, others>>

\* estimateImageTone(img): the cached tone when there is one, else the sampled
\* tone is cached
EstimateImageTone(src, tone) ==
    /\ toneCache' = IF src \in DOMAIN toneCache THEN toneCache ELSE (src :> tone) @@ toneCache
    /\ UNCHANGED <<p, clock, now, rendered, status, justLaunched, chipStatus, chip, again,
                   slot, everJust, lostJust, others>>

\* loadContent: the snapshot is fetched again and carries the record with
\* another title
LoadContent(title) ==
    /\ p' = [p EXCEPT !.title = title]
    /\ UNCHANGED <<clock, now, rendered, status, justLaunched, chipStatus, chip, again,
                   slot, toneCache, everJust, lostJust, others>>

\* the wall clock moves on while the card's const now keeps its value
TimePasses ==
    /\ rendered
    /\ clock = now
    /\ Later(clock) # {}
    /\ clock' = NextInstant(clock)
    /\ UNCHANGED <<p, now, rendered, status, justLaunched, chipStatus, chip, again,
                   slot, toneCache, everJust, lostJust, others>>

\* a further call with the card's now: statusBadge(status, p, now) calls
\* projectIsJustLaunched(p, now), which calls projectStatus(p, now)
ClassifyAgain ==
    /\ rendered
    /\ again' = projectStatus(p, now)
    /\ UNCHANGED <<p, clock, now, rendered, status, justLaunched, chipStatus, chip,
                   slot, toneCache, everJust, lostJust, others>>

NextPure ==
    \/ ProjectCard
    \/ \E slug \in WatchSlugs : ToggleWatchlist(slug)
    \/ \E tone \in Tones : EstimateImageTone(ImageSrc, tone)
    \/ \E title \in Titles : LoadContent(title)
    \/ TimePasses
    \/ ClassifyAgain

SpecPure == InitPure /\ [][NextPure]_vars

-----------------------------------------------------------------------------
(* The listings: a page takes records of the snapshot and sorts them with  *)
(* one of the exported comparators.                                        *)

\* the lists of at most MaxItems elements of S
Lists(S) == UNION {[1..n -> S] : n \in 0..MaxItems}

\* records of a listing sorted by launch or end date: either date an ISO
\* day-string or missing, the end date also a date-time string; no flags
SortProjects ==
    [launchDate : IsoValues \cup {Undefined},
     endDate : IsoValues \cup {Undefined, DateTime_03_12},
     isPreview : {Undefined}, isPromo : {Undefined},
     isLatePledge : {Undefined}, hasLatePledge : {Undefined}, latePledgeUrl : {Undefined},
     isPreOrder : {Undefined}, hasPreOrder : {Undefined}, preOrderUrl : {Undefined},
     title : {Title_A}]

\* the state of the card variables while a listing is sorted
CardsIdle ==
    /\ p = CHOOSE q \in SortProjects : q.launchDate = Undefined /\ q.endDate = Undefined
    /\ now = clock
    /\ rendered = FALSE
    /\ status = ""
    /\ justLaunched = FALSE
    /\ chipStatus = ""
    /\ chip = ""
    /\ again = ""
    /\ toneCache = <<>>
    /\ everJust = FALSE
    /\ lostJust = FALSE

cardVars == <<p, clock, now, rendered, status, justLaunched, chipStatus, chip, again,
              toneCache, everJust, lostJust>>

InitSort ==
    /\ clock = DateOf(8 * msPerDay + MakeTime(12, 0, 0, 0))
    /\ CardsIdle
    /\ slot = Null
    /\ WatchIdle
    /\ items \in Lists(SortProjects)
    /\ sorted = <<>>
    /\ sortedBy = ""
    /\ DataIdle

\* projects.sort(byEndAsc)
SortByEndAsc ==
    /\ sorted' \in SortResults(byEndAsc, items)
    /\ sortedBy' = "byEndAsc"
    /\ UNCHANGED <<cardVars, slot, items, dataVars, watchVars>>

\* projects.sort(byLaunchDesc)
SortByLaunchDesc ==
    /\ sorted' \in SortResults(byLaunchDesc, items)
    /\ sortedBy' = "byLaunchDesc"
    /\ UNCHANGED <<cardVars, slot, items, dataVars, watchVars>>

NextSort == SortByEndAsc \/ SortByLaunchDesc

SpecSort == InitSort /\ [][NextSort]_vars

-----------------------------------------------------------------------------
(* The archive listing: closed and still running projects, with and        *)
(* without continuation offer, sorted with byArchivePriority; and the      *)
(* listing of the editorial issues, sorted with byWeekDesc.                *)

\* launched on 2025-03-10; the end date an ISO day-string or missing; no offer,
\* a late pledge or a pre-order
ArchiveProjects ==
    {q \in [launchDate : {Iso_03_10}, endDate : IsoValues \cup {Undefined},
            isPreview : {Undefined}, isPromo : {Undefined},
            isLatePledge : Flag, hasLatePledge : {Undefined}, latePledgeUrl : {Undefined},
            isPreOrder : {Undefined}, hasPreOrder : {Undefined}, preOrderUrl : Url,
            title : {Title_A}] : ~(Truthy(q.isLatePledge) /\ Truthy(q.preOrderUrl))}

\* the editorial issues of the snapshot, with a weekStart of any kind
Issues == [weekStart : DateValues, title : {Title_A}]

\* the page is opened at noon of 2025-03-14 or of 2025-03-18
ArchiveClocks == {DateOf(13 * msPerDay + MakeTime(12, 0, 0, 0)),
                  DateOf(17 * msPerDay + MakeTime(12, 0, 0, 0))}

InitArchive ==
    /\ clock \in ArchiveClocks
    /\ CardsIdle
    /\ slot = Null
    /\ WatchIdle
    /\ items \in Lists(ArchiveProjects) \cup Lists(Issues)
    /\ sorted = <<>>
    /\ sortedBy = ""
    /\ DataIdle

\* projects.sort(byArchivePriority)
SortByArchivePriority ==
    /\ \A i \in 1..Len(items) : items[i] \in ArchiveProjects
    /\ sorted' \in SortResults(byArchivePriority, items)
    /\ sortedBy' = "byArchivePriority"
    /\ UNCHANGED <<cardVars, slot, items, dataVars, watchVars>>

\* issues.sort(byWeekDesc)
SortByWeekDesc ==
    /\ \A i \in 1..Len(items) : items[i] \in Issues
    /\ sorted' \in SortResults(byWeekDesc, items)
    /\ sortedBy' = "byWeekDesc"
    /\ UNCHANGED <<cardVars, slot, items, dataVars, watchVars>>

NextArchive == SortByArchivePriority \/ SortByWeekDesc

SpecArchive == InitArchive /\ [][NextArchive]_vars

-----------------------------------------------------------------------------
(* The enrichment: a page loads the snapshot and hands it to               *)
(* enrichProjects.                                                         *)

InitEnrich ==
    /\ clock = DateOf(8 * msPerDay + MakeTime(12, 0, 0, 0))
    /\ CardsIdle
    /\ slot = Null
    /\ WatchIdle
    /\ items = <<>>
    /\ sorted = <<>>
    /\ sortedBy = ""
    /\ data \in Snapshots
    /\ enriched = Null

\* const projects = enrichProjects(data)
EnrichProjects ==
    /\ enriched' = enrichProjects(data)
    /\ UNCHANGED <<cardVars, slot, sortVars, data, watchVars>>

NextEnrich == EnrichProjects

SpecEnrich == InitEnrich /\ [][NextEnrich]_vars

-----------------------------------------------------------------------------
(* The watchlist: a page calls its functions on a slot that holds what an  *)
(* earlier visit left, in a browser whose storage works, is full or is     *)
(* denied.                                                                 *)

InitWatch ==
    /\ clock = DateOf(8 * msPerDay + MakeTime(12, 0, 0, 0))
    /\ CardsIdle
    /\ items = <<>>
    /\ sorted = <<>>
    /\ sortedBy = ""
    /\ DataIdle
    /\ slot \in StoredValues
    /\ storage \in StorageModes
    /\ calls = <<>>
    /\ tabs = <<>>
    /\ lastWrite = Null

\* calls with one more call on the slot, the latest MaxCalls of them kept
Called(op, arg, completion, after) ==
    LET all == Append(calls, [op |-> op, arg |-> arg, thrown |-> completion.thrown,
                              value |-> completion.value, before |-> slot, after |-> after])
    IN SubSeq(all, IF Len(all) > MaxCalls THEN Len(all) - MaxCalls + 1 ELSE 1, Len(all))

\* toggleWatchlist(slug), as the click handler of a watch button calls it
CallToggleWatchlist(slug) ==
    /\ slot' = toggleWatchlist(storage, slot, slug).slot
    /\ calls' = Called("toggleWatchlist", slug, toggleWatchlist(storage, slot, slug), slot')
    /\ UNCHANGED <<cardVars, sortVars, dataVars, storage, tabVars>>

\* window.PNPL.clearWatchlist()
CallClearWatchlist ==
    /\ slot' = clearWatchlist(storage, slot).value
    /\ calls' = Called("clearWatchlist", <<>>,
                       [clearWatchlist(storage, slot) EXCEPT !.value = Undefined], slot')
    /\ UNCHANGED <<cardVars, sortVars, dataVars, storage, tabVars>>

\* window.PNPL.getWatchlistSlugs()
CallGetWatchlistSlugs ==
    /\ calls' = Called("getWatchlistSlugs", <<>>, getWatchlistSlugs(storage, slot), slot)
    /\ UNCHANGED <<cardVars, slot, sortVars, dataVars, storage, tabVars>>

\* isWatchlisted(slug), as watchButton calls it
CallIsWatchlisted(slug) ==
    /\ calls' = Called("isWatchlisted", slug, isWatchlisted(storage, slot, slug), slot)
    /\ UNCHANGED <<cardVars, slot, sortVars, dataVars, storage, tabVars>>

NextWatch ==
    \/ \E slug \in SlugArguments : CallToggleWatchlist(slug)
    \/ CallClearWatchlist
    \/ CallGetWatchlistSlugs
    \/ \E slug \in SlugArguments : CallIsWatchlisted(slug)

SpecWatch == InitWatch /\ [][NextWatch]_vars

-----------------------------------------------------------------------------
(* The tabs: each runs the click handler of its watch buttons in three     *)
(* steps, the read of the slot, its write, and the refresh of the buttons, *)
(* and the steps of different tabs interleave.  A write that changes the   *)
(* slot queues a storage event for every other tab.                        *)

Tabs == 1..NumTabs

InitTabs ==
    /\ clock = DateOf(8 * msPerDay + MakeTime(12, 0, 0, 0))
    /\ CardsIdle
    /\ items = <<>>
    /\ sorted = <<>>
    /\ sortedBy = ""
    /\ DataIdle
    /\ slot \in {Null, JSONstringify(<<(<<"f", "o", "o">>)>>)}
    /\ storage \in StorageModes
    /\ calls = <<>>
    /\ tabs = [t \in Tabs |->
                 [pc |-> "idle", slug |-> <<>>, read |-> Null, slugs |-> <<>>,
                  pending |-> FALSE,
                  pressed |-> [b \in DOMAIN ButtonSlugs |->
                                  isWatchlisted(storage, slot, ButtonSlugs[b]).value]]]
    /\ lastWrite = Null

\* a click on button b of tab t: toggleWatchlist(slug) up to its readWatchlist()
\* and the splice or push on the list read
ClickRead(t, b) ==
    /\ tabs[t].pc = "idle"
    /\ tabs' = [tabs EXCEPT ![t] =
                   [@ EXCEPT !.pc = IF Trim(ButtonSlugs[b]) = <<>> THEN "refresh" ELSE "write",
                             !.slug = ButtonSlugs[b],
                             !.read = slot,
                             !.slugs = Toggled(readWatchlist(storage, slot).value,
                                               Trim(ButtonSlugs[b]))]]
    /\ UNCHANGED <<cardVars, slot, sortVars, dataVars, storage, calls, lastWrite>>

\* writeWatchlist(slugs) of tab t, and the storage event queued in the other tabs
ClickWrite(t) ==
    /\ tabs[t].pc = "write"
    /\ slot' = writeWatchlist(storage, slot, tabs[t].slugs).value
    /\ tabs' = [u \in Tabs |->
                   IF u = t THEN [tabs[u] EXCEPT !.pc = "refresh"]
                   ELSE [tabs[u] EXCEPT !.pending = @ \/ slot' # slot]]
    /\ lastWrite' = IF storage = "available"
                    THEN [by |-> t, slug |-> tabs[t].slug, read |-> tabs[t].read,
                          over |-> slot # tabs[t].read]
                    ELSE lastWrite
    /\ UNCHANGED <<cardVars, sortVars, dataVars, storage, calls>>

\* refreshWatchButtons(slug) of tab t, which ends the click handler
ClickRefresh(t) ==
    /\ tabs[t].pc = "refresh"
    /\ tabs' = [tabs EXCEPT ![t] =
                   [@ EXCEPT !.pc = "idle", !.slug = <<>>, !.read = Null, !.slugs = <<>>,
                             !.pressed = refreshWatchButtons(storage, slot, tabs[t].slug, @)]]
    /\ UNCHANGED <<cardVars, slot, sortVars, dataVars, storage, calls, lastWrite>>

\* a storage event for key is delivered to tab t, between two of its handlers:
\* for the watchlist key a queued one, for another key whenever a script of the
\* origin writes it
StorageEvent(t, key) ==
    /\ tabs[t].pc = "idle"
    /\ key = WATCHLIST_STORAGE_KEY => tabs[t].pending
    /\ tabs' = [tabs EXCEPT ![t] =
                   [@ EXCEPT !.pending = IF key = WATCHLIST_STORAGE_KEY THEN FALSE ELSE @,
                             !.pressed = onStorage(key, storage, slot, @)]]
    /\ UNCHANGED <<cardVars, slot, sortVars, dataVars, storage, calls, lastWrite>>

NextTabs ==
    \/ \E t \in Tabs, b \in DOMAIN ButtonSlugs : ClickRead(t, b)
    \/ \E t \in Tabs : ClickWrite(t)
    \/ \E t \in Tabs : ClickRefresh(t)
    \/ \E t \in Tabs, key \in {WATCHLIST_STORAGE_KEY, "pnpl_theme"} : StorageEvent(t, key)

SpecTabs == InitTabs /\ [][NextTabs]_vars

-----------------------------------------------------------------------------
(* Reference reading of the inputs, in days of March 2025, for the         *)
(* properties below.                                                       *)

\* the instant of day d of March 2025 at the given local time of day
MarchAt(d, h, m, s, ms) == DateOf((d - 1) * msPerDay + MakeTime(h, m, s, ms))

\* the values that name a day: the ISO day-strings and the date-time string
NamesDay(v) == v \in IsoValues \cup {DateTime_03_12}
DayOfMarch(v) == NumberOf(v.chars, 9, 10)
NowDay == now.time \div msPerDay + 1

LateFields == {"isLatePledge", "hasLatePledge", "latePledgeUrl"}
PreFields == {"isPreOrder", "hasPreOrder", "preOrderUrl"}
AnyLate(q) == \E f \in LateFields : Truthy(q[f])
AnyPre(q) == \E f \in PreFields : Truthy(q[f])

ClearIndicators(q) ==
    [q EXCEPT !.isLatePledge = Undefined, !.hasLatePledge = Undefined,
              !.latePledgeUrl = Undefined, !.isPreOrder = Undefined,
              !.hasPreOrder = Undefined, !.preOrderUrl = Undefined]

NoFlags(q) == ~Truthy(q.isPreview) /\ ~Truthy(q.isPromo) /\ Indicators(q) = {}

\* not preview: no preview flag, and at least one of the dates an ISO day-string
NonPreview(q) == ~Truthy(q.isPreview) /\ (q.launchDate \in IsoValues \/ q.endDate \in IsoValues)

LiveWindow == {"live", "promo"}
Ended == {"late-pledge", "pre-order", "archived"}

\* the launch day has come / the end day has passed, at the clock's value
LaunchReached(q) == NamesDay(q.launchDate) => DayOfMarch(q.launchDate) <= NowDay
EndPassed(q) == NamesDay(q.endDate) /\ DayOfMarch(q.endDate) < NowDay

-----------------------------------------------------------------------------
(* C1: every card's status is one of the seven statuses, whatever the      *)
(* dates (ISO, other strings, missing), the flags and the clock: the       *)
(* classification is total.                                                *)
C1_StatusTotal == rendered => status \in Statuses

\* a malformed launchDate next to an ISO endDate still gets a status
C1_Witness ==
    /\ rendered
    /\ p.launchDate = Tba
    /\ p.endDate = Iso_03_17
    /\ ~Truthy(p.isPreview)
    /\ status = "live"

(* C2: the status is preview exactly when the preview flag is truthy or    *)
(* neither launchDate nor endDate is a string of the form YYYY-MM-DD,      *)
(* whatever the clock and the other flags.                                 *)
C2_PreviewIff ==
    rendered =>
        ((status = "preview") <=>
            (Truthy(p.isPreview) \/ (p.launchDate \notin IsoValues /\ p.endDate \notin IsoValues)))

\* a date-time string is not an ISO day-string: preview without the flag
C2_Witness ==
    /\ rendered
    /\ status = "preview"
    /\ ~Truthy(p.isPreview)
    /\ p.launchDate = DateTime_03_12
    /\ p.endDate = Undefined
    /\ Truthy(p.isPromo)
    /\ Truthy(p.latePledgeUrl)

(* C3: a card of a non-preview project with an ISO launchDate, built at    *)
(* noon or at 00:00:00.000 of the launch day, is never upcoming, and one   *)
(* built a millisecond before the launch day's 00:00:00.000 is upcoming.   *)
C3_AtLaunch ==
    /\ rendered
    /\ ~Truthy(p.isPreview)
    /\ p.launchDate \in IsoValues
    /\ now \in {MarchAt(DayOfMarch(p.launchDate), 12, 0, 0, 0),
                MarchAt(DayOfMarch(p.launchDate), 0, 0, 0, 0)}

C3_BeforeLaunch ==
    /\ rendered
    /\ ~Truthy(p.isPreview)
    /\ p.launchDate \in IsoValues
    /\ now = DateOf(MarchAt(DayOfMarch(p.launchDate), 0, 0, 0, 0).time - 1)

\* the end day is not before the launch day: an ISO endDate on or after the
\* launch day, or an endDate that is missing or unparseable
C3_EndNotBeforeLaunch ==
    \/ p.endDate \in {Undefined, Tba}
    \/ p.endDate \in IsoValues /\ DayOfMarch(p.endDate) >= DayOfMarch(p.launchDate)

\* C3 as stated: live or promo at the launch day's noon and 00:00:00.000
C3_Original ==
    /\ C3_AtLaunch => status \in LiveWindow
    /\ C3_BeforeLaunch => status = "upcoming"

\* C3 amended: never upcoming then; live or promo when the end day is not
\* before the launch day
C3_LaunchBoundary ==
    /\ C3_AtLaunch => status # "upcoming"
    /\ C3_AtLaunch /\ C3_EndNotBeforeLaunch => status \in LiveWindow
    /\ C3_BeforeLaunch => status = "upcoming"

C3_Witness ==
    /\ C3_AtLaunch
    /\ now = MarchAt(17, 0, 0, 0, 0)
    /\ p.endDate = Iso_03_17
    /\ status = "promo"

(* C4: a card of a non-preview project with ISO launchDate and endDate,    *)
(* built at 23:59:59.999 of the end day, is live or promo, and one built a *)
(* millisecond later is archived, late-pledge or pre-order; 2025-03-10 to  *)
(* 2025-03-17 without flags is live at 2025-03-10 08:00 and archived at    *)
(* 2025-03-18 00:00.                                                       *)
C4_BothIso ==
    /\ rendered
    /\ ~Truthy(p.isPreview)
    /\ p.launchDate \in IsoValues
    /\ p.endDate \in IsoValues

C4_AtEnd == C4_BothIso /\ now = MarchAt(DayOfMarch(p.endDate), 23, 59, 59, 999)
C4_AfterEnd == C4_BothIso /\ now = DateOf(MarchAt(DayOfMarch(p.endDate), 23, 59, 59, 999).time + 1)

C4_Example ==
    rendered /\ p.launchDate = Iso_03_10 /\ p.endDate = Iso_03_17 /\ NoFlags(p) =>
        /\ now = MarchAt(10, 8, 0, 0, 0) => status = "live"
        /\ now = MarchAt(18, 0, 0, 0, 0) => status = "archived"

C4_LaunchNotAfterEnd == DayOfMarch(p.launchDate) <= DayOfMarch(p.endDate)

\* C4 as stated: for every pair of ISO dates
C4_Original ==
    /\ C4_AtEnd => status \in LiveWindow
    /\ C4_AfterEnd => status \in Ended
    /\ C4_Example

\* C4 amended: for the projects whose launch day is not after their end day
C4_EndBoundary ==
    /\ C4_AtEnd /\ C4_LaunchNotAfterEnd => status \in LiveWindow
    /\ C4_AfterEnd /\ C4_LaunchNotAfterEnd => status \in Ended
    /\ C4_Example

C4_Witness ==
    /\ C4_AfterEnd
    /\ p.launchDate = Iso_03_10
    /\ p.endDate = Iso_03_17
    /\ NoFlags(p)
    /\ now = MarchAt(18, 0, 0, 0, 0)
    /\ status = "archived"

(* C5: once the end day of a non-preview project has passed (its launch    *)
(* day not being ahead), the status is late-pledge when any late-pledge    *)
(* indicator is truthy, pre-order when none is and a pre-order indicator   *)
(* is truthy, archived when none of the six is; and while the status is    *)
(* upcoming, live or promo the six indicators do not change it.            *)
C5_Continuation ==
    rendered =>
        /\ NonPreview(p) /\ LaunchReached(p) /\ EndPassed(p) =>
               status = IF AnyLate(p) THEN "late-pledge"
                        ELSE IF AnyPre(p) THEN "pre-order"
                        ELSE "archived"
        /\ status \in {"upcoming", "live", "promo"} =>
               projectStatus(ClearIndicators(p), now) = status

\* a late-pledge indicator wins over a pre-order indicator
C5_Witness ==
    /\ rendered
    /\ status = "late-pledge"
    /\ Truthy(p.hasLatePledge)
    /\ Truthy(p.preOrderUrl)
    /\ EndPassed(p)

(* C6: the status is day-based: the card built at the clock's value has    *)
(* the status projectStatus gives at every other instant of the same local *)
(* day.                                                                    *)
SameDayInstants(t) == {u \in Instants : u.time \div msPerDay = t.time \div msPerDay}

\* C6: the card's status is the status at every instant of the clock's local day
C6_DayBased ==
    rendered => \A u \in SameDayInstants(now) : projectStatus(p, u) = status

\* the end day itself: live in the morning and still live in its last millisecond
C6_Witness ==
    /\ rendered
    /\ status = "live"
    /\ p.endDate = Iso_03_10
    /\ now = MarchAt(10, 8, 0, 0, 0)
    /\ MarchAt(10, 23, 59, 59, 999) \in SameDayInstants(now)

(* C7: the card carries the just-launched badge exactly when its status is *)
(* live or promo, launchDate is an ISO day-string and the day it names is  *)
(* the clock's local year, month and day; 2025-03-10 to 2025-03-17 at      *)
(* 2025-03-10 08:00 is live and just launched.                             *)
C7_LaunchDayIsToday ==
    /\ p.launchDate \in IsoValues
    /\ NumberOf(p.launchDate.chars, 1, 4) = getFullYear(now)
    /\ NumberOf(p.launchDate.chars, 6, 7) - 1 = getMonth(now)
    /\ NumberOf(p.launchDate.chars, 9, 10) = getDate(now)

\* C7: the badge is on exactly for a live or promo card built on the launch day
C7_JustLaunchedIff ==
    rendered =>
        /\ justLaunched <=> (status \in LiveWindow /\ C7_LaunchDayIsToday)
        /\ p.launchDate = Iso_03_10 /\ p.endDate = Iso_03_17 /\ NoFlags(p)
              /\ now = MarchAt(10, 8, 0, 0, 0) => status = "live" /\ justLaunched

C7_Witness ==
    /\ rendered
    /\ p.launchDate = Iso_03_10
    /\ p.endDate = Iso_03_17
    /\ NoFlags(p)
    /\ now = MarchAt(10, 8, 0, 0, 0)
    /\ justLaunched

(* C8: the just-launched badge expires after the launch day: no card built *)
(* on a local day after the launch day carries it, and once a card without *)
(* it has followed a card with it, no later card carries it again.         *)
C8_Expires ==
    rendered =>
        /\ p.launchDate \in IsoValues /\ NowDay > DayOfMarch(p.launchDate) => ~justLaunched
        /\ lostJust => ~justLaunched

\* the badge was shown on the launch day and is gone the day after
C8_Witness ==
    /\ rendered
    /\ everJust
    /\ lostJust
    /\ ~justLaunched
    /\ status = "promo"
    /\ NowDay = DayOfMarch(p.launchDate) + 1

DaysUp(ms) ==
    CHOOSE n \in (0 - NumDays - 1)..(NumDays + 1) :
        n * msPerDay >= ms /\ (n - 1) * msPerDay < ms

C10_DaysTo(v) == DaysUp(MarchAt(DayOfMarch(v), 12, 0, 0, 0).time - now.time)

C10_Expected ==
    IF chipStatus = "preview" THEN "<span class=\"countdown-chip preview\">Dates TBA</span>"
    ELSE IF chipStatus = "upcoming" /\ p.launchDate \in IsoValues
         THEN IF C10_DaysTo(p.launchDate) > 0
              THEN "<span class=\"countdown-chip upcoming\">Launches in "
                       \o ToString(C10_DaysTo(p.launchDate)) \o "d</span>"
              ELSE "<span class=\"countdown-chip upcoming\">Launching soon</span>"
    ELSE IF chipStatus \in {"live", "promo", "late-pledge", "pre-order"} /\ p.endDate \in IsoValues
         THEN IF C10_DaysTo(p.endDate) < 0
              THEN "<span class=\"countdown-chip ended\">Ended</span>"
              ELSE IF C10_DaysTo(p.endDate) = 0
              THEN "<span class=\"countdown-chip live\">Ends today</span>"
              ELSE "<span class=\"countdown-chip live\">Ends in "
                       \o ToString(C10_DaysTo(p.endDate)) \o "d</span>"
    ELSE ""

\* C10: the chip countdownChip returned is the one the status, dates and clock call for
C10_Chip == rendered => chip = C10_Expected

\* an upcoming status handed in at the launch day's noon: zero days, Launching soon
C10_Witness ==
    /\ rendered
    /\ chipStatus = "upcoming"
    /\ p.launchDate = Iso_03_10
    /\ now = MarchAt(10, 12, 0, 0, 0)
    /\ chip = "<span class=\"countdown-chip upcoming\">Launching soon</span>"

-----------------------------------------------------------------------------
(* C11: a list sorted with byEndAsc holds the same records, every record   *)
(* whose endDate is not an ISO day-string behind every record whose        *)
(* endDate is one, and the ISO-dated ones by ascending end day; a list     *)
(* sorted with byLaunchDesc likewise on launchDate, the ISO-dated ones by  *)
(* descending launch day.  Over the records of the list each comparator    *)
(* is antisymmetric and transitive, and gives 0 for two records without    *)
(* ISO date.                                                               *)

\* sign of a comparator's result; 2 stands for NaN
Sign(v) == IF v.nan THEN 2 ELSE IF v.val < 0 THEN -1 ELSE IF v.val > 0 THEN 1 ELSE 0

\* the records of the list, with their multiplicities
BagOf(list) == [x \in {list[i] : i \in 1..Len(list)} |->
                   Cardinality({i \in 1..Len(list) : list[i] = x})]

\* invalid keys last, valid keys by day: ascending when dir = 1, descending when dir = -1
OrderedOn(list, field, dir) ==
    \A i, j \in 1..Len(list) :
        i < j =>
            /\ ~(list[i][field] \notin IsoValues /\ list[j][field] \in IsoValues)
            /\ (list[i][field] \in IsoValues /\ list[j][field] \in IsoValues)
                   => dir * DayOfMarch(list[i][field]) <= dir * DayOfMarch(list[j][field])

TotalPreorderOn(I, sgn) ==
    /\ \A i, j \in I : sgn[i][j] \in {-1, 0, 1} /\ sgn[i][j] = -sgn[j][i]
    /\ \A i, j, k \in I : (sgn[i][j] <= 0 /\ sgn[j][k] <= 0) => sgn[i][k] <= 0

TotalPreorder(cmp(_, _), list, field) ==
    /\ TotalPreorderOn(1..Len(list),
                       [i \in 1..Len(list) |->
                           [j \in 1..Len(list) |-> Sign(cmp(list[i], list[j]))] \o <<>>]
                           \o <<>>)
    /\ \A i, j \in 1..Len(list) :
            (list[i][field] \notin IsoValues /\ list[j][field] \notin IsoValues)
                => cmp(list[i], list[j]) = Num(0)

C11_Sorting ==
    /\ sortedBy = "byEndAsc" =>
           BagOf(sorted) = BagOf(items) /\ OrderedOn(sorted, "endDate", 1)
    /\ sortedBy = "byLaunchDesc" =>
           BagOf(sorted) = BagOf(items) /\ OrderedOn(sorted, "launchDate", -1)
    /\ TotalPreorder(byEndAsc, items, "endDate")
    /\ TotalPreorder(byLaunchDesc, items, "launchDate")

\* a list of three with a record without ISO end date in front of two ISO-dated
\* ones given latest first, sorted with byEndAsc
C11_Witness ==
    /\ sortedBy = "byEndAsc"
    /\ Len(items) = 3
    /\ items[1].endDate \notin IsoValues
    /\ items[2].endDate = Iso_03_17
    /\ items[3].endDate = Iso_03_10
    /\ sorted # items

-----------------------------------------------------------------------------
(* C12: byArchivePriority puts a late-pledge project before a pre-order    *)
(* project and a pre-order project before a plain archived one, whatever   *)
(* their end dates, and of two closed projects of one rank the one that    *)
(* ended later first; a list of closed projects sorted with it comes out   *)
(* in that order.                                                          *)

\* closed at the clock's value, read from the record's days
Closed(q) == NonPreview(q) /\ LaunchReached(q) /\ EndPassed(q)
ClosedRank(q) == IF AnyLate(q) THEN 0 ELSE IF AnyPre(q) THEN 1 ELSE 2

C12_ArchivePriority ==
    (\A i \in 1..Len(items) : items[i] \in ArchiveProjects) =>
    /\ \A i, j \in 1..Len(items) :
         (Closed(items[i]) /\ Closed(items[j])) =>
            /\ ClosedRank(items[i]) < ClosedRank(items[j])
                   => Sign(byArchivePriority(items[i], items[j])) = -1
            /\ ClosedRank(items[i]) > ClosedRank(items[j])
                   => Sign(byArchivePriority(items[i], items[j])) = 1
            /\ (/\ ClosedRank(items[i]) = ClosedRank(items[j])
                /\ DayOfMarch(items[i].endDate) > DayOfMarch(items[j].endDate))
                   => Sign(byArchivePriority(items[i], items[j])) = -1
    /\ (sortedBy = "byArchivePriority" /\ \A i \in 1..Len(items) : Closed(items[i])) =>
         /\ BagOf(sorted) = BagOf(items)
         /\ \A i, j \in 1..Len(sorted) :
              i < j =>
                 /\ ClosedRank(sorted[i]) <= ClosedRank(sorted[j])
                 /\ ClosedRank(sorted[i]) = ClosedRank(sorted[j])
                        => DayOfMarch(sorted[i].endDate) >= DayOfMarch(sorted[j].endDate)

\* a plain archived project that ended last, a pre-order and a late-pledge
\* project that ended a week earlier, sorted into the reverse order
C12_Witness ==
    /\ sortedBy = "byArchivePriority"
    /\ Len(items) = 3
    /\ \A i \in 1..3 : Closed(items[i])
    /\ ClosedRank(items[1]) = 2 /\ items[1].endDate = Iso_03_17
    /\ ClosedRank(items[2]) = 1 /\ items[2].endDate = Iso_03_10
    /\ ClosedRank(items[3]) = 0 /\ items[3].endDate = Iso_03_10
    /\ sorted = <<items[3], items[2], items[1]>>

-----------------------------------------------------------------------------
(* C13: byWeekDesc on weekStart, and byArchivePriority on the endDate of   *)
(* two projects of one rank, give for a record whose date is missing or    *)
(* unparseable against a record with a valid date a number greater than    *)
(* zero, so that the sorted list holds the record without valid date       *)
(* behind every record with one.                                           *)

\* no record without valid date stands before one with a valid date
InvalidLast(list, field) ==
    \A i, j \in 1..Len(list) :
        i < j => ~(~NamesDay(list[i][field]) /\ NamesDay(list[j][field]))

C13_InvalidLast ==
    /\ sortedBy = "byWeekDesc" =>
         /\ \A i, j \in 1..Len(items) :
              (~NamesDay(items[i].weekStart) /\ NamesDay(items[j].weekStart))
                  => Sign(byWeekDesc(items[i], items[j])) = 1
         /\ InvalidLast(sorted, "weekStart")
    /\ sortedBy = "byArchivePriority" =>
         /\ \A i, j \in 1..Len(items) :
              (/\ rank(items[i]) = rank(items[j])
               /\ ~NamesDay(items[i].endDate) /\ NamesDay(items[j].endDate))
                  => Sign(byArchivePriority(items[i], items[j])) = 1
         /\ (\A i, j \in 1..Len(items) : rank(items[i]) = rank(items[j]))
                  => InvalidLast(sorted, "endDate")

-----------------------------------------------------------------------------
(* C14: for a project with a publisher name, and for a project without     *)
(* designers list whose designer name has no comma and no surrounding      *)
(* whitespace: when people of the registry carry that name, compared       *)
(* without regard to case, and the last of them has a non-empty slug, the  *)
(* resulting publisherSlug / designerSlug is that slug; otherwise it is    *)
(* slugify(name).                                                          *)

\* the people of a registry whose name is the given one, case-insensitively
Matching(people, name) ==
    {i \in 1..Len(people) : toLowerCase(StringOf(people[i].name)) = toLowerCase(name)}

\* the slug of the last matching person when it has one, else the derived slug
ExpectedSlug(people, name) ==
    LET m == Matching(people, name)
        last == CHOOSE i \in m : \A k \in m : k <= i
    IN IF m # {} /\ Truthy(people[last].slug) THEN people[last].slug.chars ELSE slugify(name)

PlainName(name) == name # <<>> /\ Trim(name) = name /\ \A i \in 1..Len(name) : name[i] # ","

C14_Slugs ==
    enriched # Null =>
        /\ Truthy(data.project.publisher) =>
             enriched.publisherSlug = ExpectedSlug(data.publishers, data.project.publisher.chars)
        /\ (/\ typeof(data.project.designers) # "array"
            /\ PlainName(StringOf(data.project.designer))) =>
             enriched.designerSlug = ExpectedSlug(data.designers, data.project.designer.chars)

\* C14 as stated, for any publisher name and any designer name without
\* surrounding whitespace: the slug of a person of that name (the derived one
\* when the person has none), else the derived slug
StatedSlug(people, name, slug) ==
    LET m == Matching(people, name)
    IN IF m # {}
       THEN \E i \in m : slug = (IF Truthy(people[i].slug) THEN people[i].slug.chars
                                 ELSE slugify(name))
       ELSE slug = slugify(name)

C14_Original ==
    enriched # Null =>
        /\ Truthy(data.project.publisher) =>
             StatedSlug(data.publishers, data.project.publisher.chars, enriched.publisherSlug)
        /\ (/\ typeof(data.project.designers) # "array"
            /\ Truthy(data.project.designer)
            /\ Trim(data.project.designer.chars) = data.project.designer.chars) =>
             StatedSlug(data.designers, data.project.designer.chars, enriched.designerSlug)

\* the designer in capitals, the registry's person in mixed case: the person's
\* slug is taken, which is not the derived one
C14_Witness ==
    /\ enriched # Null
    /\ data.project.designers = Undefined
    /\ data.project.designer = Str(Name_ADA)
    /\ data.designers = <<Person_Ada>>
    /\ enriched.designerSlug = <<"a", "l">>
    /\ enriched.designerSlug # slugify(Name_ADA)

-----------------------------------------------------------------------------
(* C15: designerItems of a project with a designers list holds one pair    *)
(* per name that is not blank, with the trimmed name, in input order; of a *)
(* legacy project with a single designer name that is not blank and has    *)
(* no comma it holds one pair with the trimmed name, and is the list the   *)
(* same name gives as a one-element designers list.                        *)

\* the names of a designers list, trimmed, without the blank ones
ListedNames(designers) ==
    SelectSeq([i \in 1..Len(designers.elems) |-> Trim(StringOf(designers.elems[i]))],
              LAMBDA n : n # <<>>)

\* the snapshot with the legacy designer name as a one-element designers list
AsList(d) == [d EXCEPT !.project.designers = Array(<<d.project.designer>>)]

C15_Items ==
    enriched # Null =>
        /\ typeof(data.project.designers) = "array" =>
             /\ Len(enriched.designerItems) = Len(ListedNames(data.project.designers))
             /\ \A i \in 1..Len(enriched.designerItems) :
                  /\ enriched.designerItems[i].name = ListedNames(data.project.designers)[i]
                  /\ enriched.designerItems[i].slug =
                         ExpectedSlug(data.designers, enriched.designerItems[i].name)
        /\ (/\ typeof(data.project.designers) # "array"
            /\ Trim(StringOf(data.project.designer)) # <<>>
            /\ \A i \in 1..Len(data.project.designer.chars) :
                   data.project.designer.chars[i] # ",") =>
             /\ Len(enriched.designerItems) = 1
             /\ enriched.designerItems[1].name = Trim(data.project.designer.chars)
             /\ enriched.designerItems = enrichProjects(AsList(data)).designerItems

\* C15 as stated, for a legacy name without surrounding whitespace: the name is
\* held exactly, whatever its characters
C15_Original ==
    enriched # Null =>
        /\ typeof(data.project.designers) = "array" =>
             /\ Len(enriched.designerItems) = Len(ListedNames(data.project.designers))
             /\ \A i \in 1..Len(enriched.designerItems) :
                  enriched.designerItems[i].name = ListedNames(data.project.designers)[i]
        /\ (/\ typeof(data.project.designers) # "array"
            /\ Truthy(data.project.designer)
            /\ Trim(data.project.designer.chars) = data.project.designer.chars) =>
             /\ Len(enriched.designerItems) = 1
             /\ enriched.designerItems[1].name = data.project.designer.chars
             /\ enriched.designerItems = enrichProjects(AsList(data)).designerItems

\* a legacy name with a leading space, and a list with a blank name between
\* two names
C15_Witness ==
    /\ enriched # Null
    /\ \/ /\ data.project.designers = Undefined
          /\ data.project.designer = Str(Name_Padded)
          /\ enriched.designerItems = <<[name |-> Name_Ada, slug |-> slugify(Name_Ada)]>>
       \/ /\ data.project.designers = Array(<<Str(Name_Two), Str(Name_Blank)>>)
          /\ Len(enriched.designerItems) = 1

-----------------------------------------------------------------------------
(* The watchlist as its callers see it.                                    *)

\* the list a page reads from the stored value sl when storage works
Listed(sl) == readWatchlist("available", sl).value

Members(list) == {list[k] : k \in 1..Len(list)}

\* the array stored in sl, if one is stored, holds no slug twice
NoSlugTwice(sl) ==
    LET parsed == IF sl = Null THEN Throw ELSE JSONparse(sl.chars)
    IN ~parsed.thrown /\ typeof(parsed.value) = "array"
           => \A i, j \in 1..Len(parsed.value.elems) :
                  i # j => parsed.value.elems[i] # parsed.value.elems[j]

\* call c toggles a slug whose trimmed form is not empty and not in the list
Adds(c) ==
    /\ c.op = "toggleWatchlist"
    /\ Trim(c.arg) # <<>>
    /\ Trim(c.arg) \notin Members(Listed(c.before))

\* call c writes the slot when storage works
Writes(c) == c.op = "clearWatchlist" \/ (c.op = "toggleWatchlist" /\ Trim(c.arg) # <<>>)

Absent(c) ==
    /\ c.op = "toggleWatchlist"
    /\ c.arg # <<>>
    /\ c.arg \notin Members(Listed(c.before))

Unreadable(sl) ==
    \/ storage = "denied"
    \/ sl = Null
    \/ JSONparse(sl.chars).thrown
    \/ typeof(JSONparse(sl.chars).value) # "array"

(* C17: no watchlist call propagates an exception; when the stored value   *)
(* is missing, not JSON or not an array, or reading storage throws,        *)
(* getWatchlistSlugs returns the empty list and isWatchlisted false; when  *)
(* writing storage throws, toggleWatchlist and clearWatchlist leave the    *)
(* stored value as it was.                                                 *)
C17_NeverFatal ==
    \A k \in 1..Len(calls) :
        /\ ~calls[k].thrown
        /\ Unreadable(calls[k].before) /\ calls[k].op = "getWatchlistSlugs"
               => calls[k].value = <<>>
        /\ Unreadable(calls[k].before) /\ calls[k].op = "isWatchlisted"
               => calls[k].value = FALSE
        /\ storage # "available" /\ calls[k].op \in {"toggleWatchlist", "clearWatchlist"}
               => calls[k].after = calls[k].before

\* a text that is not JSON was read as the empty list, then a toggle's write threw
C17_Witness ==
    /\ storage = "quota"
    /\ Len(calls) = 2
    /\ calls[1].op = "getWatchlistSlugs"
    /\ calls[1].before = Str(<<"[", "f", "o", "o">>)
    /\ calls[1].value = <<>>
    /\ calls[2].op = "toggleWatchlist"
    /\ calls[2].arg = <<"f", "o", "o">>
    /\ ~calls[2].thrown
    /\ slot = calls[1].before

-----------------------------------------------------------------------------
(* The tabs and the slot they share.                                       *)

(* C18: last writer wins: once a tab has written, the slot holds exactly   *)
(* the list that the tab that wrote last computed from the value it had    *)
(* read, the toggle of its slug on that list, whatever the other tabs      *)
(* wrote between its read and its write; and the stored list never holds   *)
(* a slug twice.                                                           *)
C18_LastWriterWins ==
    /\ NoSlugTwice(slot)
    /\ lastWrite # Null =>
           slot = JSONstringify(Toggled(readWatchlist(storage, lastWrite.read).value,
                                        Trim(lastWrite.slug)))

\* a tab saved bar and shows it pressed; the other tab, which had read the
\* slot before, then wrote foo alone over it
C18_Witness ==
    /\ lastWrite # Null
    /\ lastWrite.over
    /\ lastWrite.slug = <<"f", "o", "o">>
    /\ Listed(slot) = <<(<<"f", "o", "o">>)>>
    /\ \E t \in Tabs : t # lastWrite.by /\ tabs[t].pc = "idle" /\ tabs[t].pressed[3]

\* button b of a tab in state tab shows pressed exactly when its slug is in the
\* list read from the stored value sl
Tracks(tab, b, st, sl) ==
    tab.pressed[b] = (ButtonSlugs[b] \in Members(getWatchlistSlugs(st, sl).value))

(* C19: the step that ends a click handler leaves every button of the tab  *)
(* that carries the clicked slug pressed exactly when the slug is in the   *)
(* persisted list; the delivery of a storage event for the watchlist key   *)
(* leaves every button of the tab so; the delivery of one for another key  *)
(* changes no button.                                                      *)
C19_Buttons ==
    [][\A t \in Tabs :
          /\ ClickRefresh(t) =>
                 \A b \in DOMAIN ButtonSlugs : ButtonSlugs[b] = tabs[t].slug => Tracks(tabs'[t], b, storage', slot')
          /\ StorageEvent(t, WATCHLIST_STORAGE_KEY) =>
                 \A b \in DOMAIN ButtonSlugs : Tracks(tabs'[t], b, storage', slot')
          /\ \A key \in {"pnpl_theme"} :
                 StorageEvent(t, key) => tabs'[t].pressed = tabs[t].pressed]_vars

\* tab 1 saved foo and both its foo buttons show it; tab 2, which showed bar
\* pressed from a click of its own that tab 1 overwrote, has been notified and
\* shows foo, and no longer bar
C19_Witness ==
    /\ lastWrite # Null
    /\ lastWrite.by = 1
    /\ lastWrite.over
    /\ Listed(slot) = <<(<<"f", "o", "o">>)>>
    /\ \A t \in Tabs : tabs[t].pc = "idle" /\ ~tabs[t].pending
    /\ \A t \in Tabs : tabs[t].pressed = <<TRUE, TRUE, FALSE>>

-----------------------------------------------------------------------------
(* The status of one project over time.                                    *)

\* the phases of a listing: before its launch, open, closed; 0 for preview
Phase(st) ==
    CASE st = "upcoming" -> 1
      [] st \in {"live", "promo"} -> 2
      [] st \in {"late-pledge", "pre-order", "archived"} -> 3
      [] OTHER -> 0

(* C20: from one card of a project to any later card of it the phase of    *)
(* the status does not decrease, with upcoming before live and promo, and  *)
(* these before late-pledge, pre-order and archived; a preview stays a     *)
(* preview and nothing else becomes one; so after a closed status no card  *)
(* reads upcoming, live or promo.                                          *)
C20_Forward ==
    [][status # "" =>
           /\ (status = "preview") = (status' = "preview")
           /\ Phase(status) <= Phase(status')]_vars

\* a card of a closed listing, days after a card that showed it just launched
C20_Witness ==
    /\ rendered
    /\ Phase(status) = 3
    /\ everJust
    /\ hasIsoDate(p.launchDate)
    /\ hasIsoDate(p.endDate)
    /\ DateLt(parseDate(p.launchDate), parseDate(p.endDate))

-----------------------------------------------------------------------------
(* The countdown chip of a card against the calendar.                      *)

(* C21: on a card whose project is not flagged preview and has an ISO      *)
(* launchDate and an ISO endDate not before it, the chip reads Ends today  *)
(* exactly when now is on the end day; a live or promo card never reads    *)
(* Ended; a late-pledge or pre-order card always reads Ended.              *)
C21_Calendar ==
    rendered /\ ~Truthy(p.isPreview) /\ p.launchDate \in IsoValues /\ p.endDate \in IsoValues
             /\ DayOfMarch(p.launchDate) <= DayOfMarch(p.endDate)
        => /\ (chip = "<span class=\"countdown-chip live\">Ends today</span>")
                  = (NowDay = DayOfMarch(p.endDate))
           /\ status \in LiveWindow => chip # "<span class=\"countdown-chip ended\">Ended</span>"
           /\ status \in {"late-pledge", "pre-order"}
                  => chip = "<span class=\"countdown-chip ended\">Ended</span>"

-----------------------------------------------------------------------------
(* Cards of projects with one ISO date.                                    *)

(* C22: a card of a project not flagged preview, with an ISO launchDate    *)
(* and an endDate that is missing or unparseable, reads upcoming before    *)
(* the launch day and live or promo from the launch day on, never a        *)
(* closed status; with an ISO endDate and a launchDate that is missing or  *)
(* unparseable, it never reads upcoming and reads live or promo until the  *)
(* end day has passed; in neither case does it read preview.               *)
C22_OneDate ==
    rendered /\ ~Truthy(p.isPreview) =>
        /\ p.launchDate \in IsoValues /\ p.endDate \in {Undefined, Tba} =>
               IF NowDay < DayOfMarch(p.launchDate) THEN status = "upcoming"
               ELSE status \in LiveWindow
        /\ p.endDate \in IsoValues /\ p.launchDate \in {Undefined, Tba} =>
               /\ status \notin {"upcoming", "preview"}
               /\ NowDay <= DayOfMarch(p.endDate) => status \in LiveWindow

\* days after its launch a card without endDate, with a late pledge on offer,
\* still reads live
C22_Witness ==
    /\ rendered
    /\ ~Truthy(p.isPreview)
    /\ p.launchDate = Iso_03_10
    /\ p.endDate = Undefined
    /\ AnyLate(p)
    /\ NowDay = 18
    /\ status = "live"

-----------------------------------------------------------------------------
(* What toggleWatchlist returns against what it leaves in the slot.        *)

(* C23: every call toggleWatchlist(s) completes, and the value it returns  *)
(* is the value isWatchlisted(s) has on the slot it leaves: true after     *)
(* true, false after false, whatever the slug, the stored value and the    *)
(* behaviour of storage; with an empty or blank slug it returns false and  *)
(* leaves the stored value as it was.                                      *)
C23_Agrees ==
    \A k \in 1..Len(calls) :
        calls[k].op = "toggleWatchlist" =>
            /\ ~calls[k].thrown
            /\ calls[k].value = isWatchlisted(storage, calls[k].after, calls[k].arg).value
            /\ Trim(calls[k].arg) = <<>> =>
                   calls[k].value = FALSE /\ calls[k].after = calls[k].before

====
